---- MODULE Spec2Model ----
(***************************************************************************)
(* Model of src/Op/Op.cc: RemoteOp, ServerOp and OpManager of Homa.        *)
(*                                                                         *)
(* Buffers are pointers in the code; here an outbound buffer is an index   *)
(* into outMsgs and an inbound buffer an index into inMsgs, with 0 for     *)
(* nullptr.  The index of an inbound message is the position at which the  *)
(* transport's receive() returned it.  The transport and the driver are    *)
(* outside Op.cc: the status of a sent buffer and the dropped mark of a    *)
(* request are changed by environment actions.                             *)
(*                                                                         *)
(* Code that runs under members->mutex is one atomic action; code outside  *)
(* the lock is split at every access to shared state, with the position of *)
(* each application thread in threads[t].pc.                               *)
(***************************************************************************)
EXTENDS Integers, Sequences, FiniteSets, TLC

\* ------------------------------------------------------------- bounds
NumRemoteOps == 2       \* RemoteOp objects the application constructs
NumServerOpVars == 1    \* ServerOp variables the application holds at a time
NumThreads == 2         \* application threads
MaxInMessages == 2      \* messages the transport's receive() returns in a run

\* ---------------------------------------------------- program constants
INITIAL_REQUEST_ID == 0
ULTIMATE_RESPONSE_ID == 2147483647
NoOpId == 0                 \* Protocol::OpId(), the id of an op never sent
FirstSequenceNumber == 1    \* nextOpSequenceNumber of a new OpManager

RemoteOpIds == 1..NumRemoteOps
ServerOpVarIds == 1..NumServerOpVars
Threads == 1..NumThreads
SequenceNumbers == NoOpId..NumRemoteOps

Addresses == {"A", "B", "C"}
LocalAddress == "A"         \* driver->getLocalAddress()
NoAddress == "none"         \* replyAddress(0)
Destinations == {"B"}       \* where send() and delegate() are told to send

NoHeader == [opId |-> NoOpId, stageId |-> INITIAL_REQUEST_ID, replyAddress |-> NoAddress]

\* Protocol::Message::Header
Header(opId, stageId, replyAddress) ==
    [opId |-> opId, stageId |-> stageId, replyAddress |-> replyAddress]

\* Headers of the messages receive() may return: a response for every
\* operation id a RemoteOp can get, and requests of stage 0 and 1.
ResponseHeaders == {Header(i, ULTIMATE_RESPONSE_ID, LocalAddress) : i \in RemoteOpIds}
RequestHeaders ==
    {Header(1, s, "B") : s \in {INITIAL_REQUEST_ID, INITIAL_REQUEST_ID + 1}}
ClientHeaders == ResponseHeaders \cup {Header(1, INITIAL_REQUEST_ID, "B")}
ServerHeaders == RequestHeaders

\* A delegation chain: the original caller is at address "C"; the first request
\* a server of the chain gets has one of these stages
OriginalCaller == "C"
ChainStages == {INITIAL_REQUEST_ID, ULTIMATE_RESPONSE_ID - 1}

VARIABLES
    remoteOps,              \* members->remoteOps: operation id -> RemoteOp (0: no entry)
    nextOpSequenceNumber,   \* members->nextOpSequenceNumber
    pendingServerOps,       \* members->pendingServerOps
    detachedServerOps,      \* members->detachedServerOps
    rops,                   \* the application's RemoteOp objects
    sops,                   \* the application's ServerOp variables
    threads,                \* position and locals of each application thread
    inMsgs,                 \* inbound messages, in the order receive() returned them
    outMsgs,                \* outbound buffers, in the order alloc() returned them
    halted,                 \* a failed assert() or a self-deadlock stopped the process
    wire                    \* headers of the messages that have arrived and that
                            \* receive() has not returned yet (round trip only)

vars == <<remoteOps, nextOpSequenceNumber, pendingServerOps, detachedServerOps,
          rops, sops, threads, inMsgs, outMsgs, halted, wire>>

managerVars == <<remoteOps, nextOpSequenceNumber, pendingServerOps, detachedServerOps>>

\* ---------------------------------------------------- message primitives
NewOutMessage ==
    [status |-> "NOT_STARTED", active |-> FALSE, header |-> NoHeader,
     destination |-> NoAddress, cancelled |-> 0, released |-> 0]

NewInMessage == [dropped |-> FALSE, released |-> 0, acknowledged |-> 0, failed |-> 0]

\* OutMessage::send: the transport starts a transmission of the buffer
OutSend(outs, o, header, destination) ==
    [outs EXCEPT ![o] = [@ EXCEPT !.status = "NOT_STARTED", !.active = TRUE,
                                  !.header = header, !.destination = destination]]

\* OutMessage::cancel
OutCancel(outs, o) ==
    [outs EXCEPT ![o] = [@ EXCEPT !.cancelled = @ + 1, !.active = FALSE]]

\* OutMessage::release: the buffer goes back to the transport; of a released
\* buffer only the numbers of cancel() and release() calls are kept
OutRelease(outs, o) ==
    [outs EXCEPT ![o] = [NewOutMessage EXCEPT !.cancelled = outs[o].cancelled,
                                              !.released = outs[o].released + 1]]

\* InMessage::release: of a released message only the numbers of
\* acknowledge(), fail() and release() calls are kept
InRelease(ins, m) ==
    [ins EXCEPT ![m] = [NewInMessage EXCEPT !.acknowledged = ins[m].acknowledged,
                                            !.failed = ins[m].failed,
                                            !.released = ins[m].released + 1]]

\* InMessage::acknowledge, InMessage::fail
InAcknowledge(ins, m) == [ins EXCEPT ![m] = [@ EXCEPT !.acknowledged = @ + 1]]
InFail(ins, m) == [ins EXCEPT ![m] = [@ EXCEPT !.failed = @ + 1]]

\* ---------------------------------------------------------- RemoteOp
NoRemoteOp ==
    [life |-> "none", request |-> 0, response |-> 0, opId |-> NoOpId,
     state |-> "NOT_STARTED"]

IdleThread ==
    [pc |-> "idle", op |-> 0, copyOfState |-> "NOT_STARTED", message |-> 0,
     header |-> NoHeader]

\* A thread calls a method of a RemoteOp only while the object exists and no
\* other thread is inside send(), isReady() or the destructor of it.
MayCall(r) ==
    /\ rops[r].life = "alive"
    /\ \A t \in Threads : threads[t].op # r

\* std::unordered_map::insert: an existing entry is kept
MapInsert(map, opId, r) ==
    IF map[opId] # 0 THEN map ELSE [map EXCEPT ![opId] = r]

\* mutant: the destructor leaves the entry in the map
MapEraseNothing(map, opId) == map

\* std::unordered_map::erase
MapErase(map, opId) == [map EXCEPT ![opId] = 0]

\* mutant: the sequence number is not incremented
SameSequenceNumber(n) == n

\* nextOpSequenceNumber++
NextSequenceNumber(n) == n + 1

\* RemoteOp::RemoteOp
NewRemoteOp(r) ==
    /\ ~halted
    /\ rops[r].life = "none"
    /\ \A q \in RemoteOpIds : q < r => rops[q].life # "none"
    /\ outMsgs' = Append(outMsgs, NewOutMessage)
    /\ rops' = [rops EXCEPT ![r] = [NoRemoteOp EXCEPT !.life = "alive",
                                                      !.request = Len(outMsgs) + 1]]
    /\ UNCHANGED <<wire, managerVars, sops, threads, inMsgs, halted>>

\* RemoteOp::send, line 46: state.store(IN_PROGRESS), before the lock is taken.
\* The application calls send() on a RemoteOp that is NOT_STARTED.
SendStore(t, r) ==
    /\ ~halted
    /\ threads[t].pc = "idle"
    /\ MayCall(r)
    /\ rops[r].state = "NOT_STARTED"
    /\ rops' = [rops EXCEPT ![r].state = "IN_PROGRESS"]
    /\ threads' = [threads EXCEPT ![t] = [IdleThread EXCEPT !.pc = "send", !.op = r]]
    /\ UNCHANGED <<wire, managerVars, sops, inMsgs, outMsgs, halted>>

\* RemoteOp::send, lines 48-57, under the lock
SendLocked(t, destination) ==
    /\ ~halted
    /\ threads[t].pc = "send"
    /\ LET r == threads[t].op
           opId == nextOpSequenceNumber
       IN /\ nextOpSequenceNumber' = NextSequenceNumber(nextOpSequenceNumber)
          /\ rops' = [rops EXCEPT ![r].opId = opId]
          /\ remoteOps' = MapInsert(remoteOps, opId, r)
          /\ outMsgs' = OutSend(outMsgs, rops[r].request,
                                Header(opId, INITIAL_REQUEST_ID, LocalAddress),
                                destination)
    /\ threads' = [threads EXCEPT ![t] = IdleThread]
    /\ UNCHANGED <<wire, pendingServerOps, detachedServerOps, sops, inMsgs, halted>>

\* RemoteOp::isReady, line 63: state.load().  For a state other than
\* IN_PROGRESS the call returns without another access to the RemoteOp.
IsReadyLoad(t, r) ==
    /\ ~halted
    /\ threads[t].pc = "idle"
    /\ MayCall(r)
    /\ threads' = IF rops[r].state = "IN_PROGRESS"
                  THEN [threads EXCEPT ![t] = [IdleThread EXCEPT !.pc = "isReady",
                                                  !.op = r,
                                                  !.copyOfState = rops[r].state]]
                  ELSE threads
    /\ UNCHANGED <<wire, managerVars, rops, sops, inMsgs, outMsgs, halted>>

\* the value isReady() returns for the state it loaded and the request's status
IsReadyResult(copyOfState, requestStatus) ==
    CASE copyOfState = "NOT_STARTED" -> FALSE
      [] copyOfState = "IN_PROGRESS" -> requestStatus = "FAILED"
      [] OTHER -> TRUE

\* RemoteOp::isReady, lines 64-83
IsReadySwitch(t) ==
    /\ ~halted
    /\ threads[t].pc = "isReady"
    /\ LET r == threads[t].op
       IN rops' = IF /\ threads[t].copyOfState = "IN_PROGRESS"
                     /\ outMsgs[rops[r].request].status = "FAILED"
                  THEN [rops EXCEPT ![r].state = "FAILED"]
                  ELSE rops
    /\ threads' = [threads EXCEPT ![t] = IdleThread]
    /\ UNCHANGED <<wire, managerVars, sops, inMsgs, outMsgs, halted>>

\* RemoteOp::~RemoteOp, lines 35-38: the buffers are released before the lock
DestroyRelease(t, r) ==
    /\ ~halted
    /\ threads[t].pc = "idle"
    /\ MayCall(r)
    /\ outMsgs' = OutRelease(outMsgs, rops[r].request)
    /\ inMsgs' = IF rops[r].response # 0 THEN InRelease(inMsgs, rops[r].response)
                 ELSE inMsgs
    /\ threads' = [threads EXCEPT ![t] = [IdleThread EXCEPT !.pc = "destroy", !.op = r]]
    /\ UNCHANGED <<wire, managerVars, rops, sops, halted>>

\* RemoteOp::~RemoteOp, lines 39-40, under the lock.  Of the destroyed object
\* the model keeps the operation id and the request it had.
DestroyErase(t) ==
    /\ ~halted
    /\ threads[t].pc = "destroy"
    /\ LET r == threads[t].op
       IN /\ remoteOps' = MapErase(remoteOps, rops[r].opId)
          /\ rops' = [rops EXCEPT ![r] = [NoRemoteOp EXCEPT !.life = "destroyed",
                                                            !.opId = rops[r].opId,
                                                            !.request = rops[r].request]]
    /\ threads' = [threads EXCEPT ![t] = IdleThread]
    /\ UNCHANGED <<wire, nextOpSequenceNumber, pendingServerOps, detachedServerOps, sops,
                   inMsgs, outMsgs, halted>>

\* RemoteOp::wait is called
WaitStart(t, r) ==
    /\ ~halted
    /\ threads[t].pc = "idle"
    /\ MayCall(r)
    /\ threads' = [threads EXCEPT ![t] = [IdleThread EXCEPT !.pc = "wait", !.op = r]]
    /\ UNCHANGED <<wire, managerVars, rops, sops, inMsgs, outMsgs, halted>>

\* RemoteOp::wait, line 89: isReady() is called; its line 63, state.load()
WaitLoad(t) ==
    /\ ~halted
    /\ threads[t].pc = "wait"
    /\ threads' = [threads EXCEPT ![t].pc = "waitSwitch",
                                  ![t].copyOfState = rops[threads[t].op].state]
    /\ UNCHANGED <<wire, managerVars, rops, sops, inMsgs, outMsgs, halted>>

\* RemoteOp::wait, lines 89-90: the switch of isReady() (lines 64-83); wait()
\* returns if isReady() returned true, and otherwise calls poll() (poll's line
\* 294, internal->poll(), is part of this step)
WaitSwitch(t) ==
    /\ ~halted
    /\ threads[t].pc = "waitSwitch"
    /\ LET r == threads[t].op
           requestStatus == outMsgs[rops[r].request].status
       IN /\ rops' = IF /\ threads[t].copyOfState = "IN_PROGRESS"
                        /\ requestStatus = "FAILED"
                     THEN [rops EXCEPT ![r].state = "FAILED"]
                     ELSE rops
          /\ threads' = [threads EXCEPT ![t] =
                           IF IsReadyResult(threads[t].copyOfState, requestStatus)
                           THEN IdleThread
                           ELSE [IdleThread EXCEPT !.pc = "receive", !.op = r]]
    /\ UNCHANGED <<wire, managerVars, sops, inMsgs, outMsgs, halted>>

\* ---------------------------------------------------------- ServerOp
\* ServerOp::ServerOp()
EmptyServerOp ==
    [request |-> 0, response |-> 0, transport |-> FALSE, state |-> "NOT_STARTED",
     detached |-> FALSE, opId |-> NoOpId, stageId |-> INITIAL_REQUEST_ID,
     replyAddress |-> NoAddress, delegated |-> FALSE]

NoServerOpVar == [live |-> FALSE, op |-> EmptyServerOp]

\* mutant: a sent response completes the op, delegated or not
CompletionWhenSent(outState, delegated) ==
    \/ outState = "COMPLETED"
    \/ outState = "SENT"

\* ServerOp::makeProgress, lines 194-195
CompletionCriterion(outState, delegated) ==
    \/ outState = "COMPLETED"
    \/ outState = "SENT" /\ ~delegated

\* the result of makeProgress(): the op and the buffers after the call, and
\* whether an assert() failed
ProgressResult(op, ins, outs) ==
    [op |-> op, ins |-> ins, outs |-> outs, assertFailed |-> FALSE]

\* mutant: the status of the response is looked at before the dropped mark
ProgressDroppedLast(op, ins, outs) ==
    LET outState == IF op.response # 0 THEN outs[op.response].status ELSE "NOT_STARTED"
        same == ProgressResult(op, ins, outs)
    IN IF op.request = 0 THEN [same EXCEPT !.assertFailed = TRUE]
       ELSE IF CompletionCriterion(outState, op.delegated)
       THEN [same EXCEPT !.op.state = "COMPLETED",
                         !.ins = IF op.stageId # INITIAL_REQUEST_ID
                                 THEN InAcknowledge(ins, op.request) ELSE ins]
       ELSE IF outState = "FAILED"
       THEN [same EXCEPT !.op.state = "FAILED", !.outs = OutCancel(outs, op.response)]
       ELSE IF ins[op.request].dropped
       THEN [same EXCEPT !.op.state = "DROPPED"]
       ELSE same

\* mutant: the request is acknowledged whatever its stage is
ProgressAcknowledgeAlways(op, ins, outs) ==
    LET outState == IF op.response # 0 THEN outs[op.response].status ELSE "NOT_STARTED"
        same == ProgressResult(op, ins, outs)
    IN IF op.request = 0 THEN [same EXCEPT !.assertFailed = TRUE]
       ELSE IF ins[op.request].dropped
       THEN [same EXCEPT !.op.state = "DROPPED"]
       ELSE IF CompletionCriterion(outState, op.delegated)
       THEN [same EXCEPT !.op.state = "COMPLETED",
                         !.ins = InAcknowledge(ins, op.request)]
       ELSE IF outState = "FAILED"
       THEN [same EXCEPT !.op.state = "FAILED", !.outs = OutCancel(outs, op.response)]
       ELSE same

\* ServerOp::makeProgress, lines 189-205: the IN_PROGRESS branch
ProgressInProgress(op, ins, outs) ==
    LET outState == IF op.response # 0 THEN outs[op.response].status ELSE "NOT_STARTED"
        same == ProgressResult(op, ins, outs)
    IN IF op.request = 0 THEN [same EXCEPT !.assertFailed = TRUE]
       ELSE IF ins[op.request].dropped
       THEN [same EXCEPT !.op.state = "DROPPED"]
       ELSE IF CompletionCriterion(outState, op.delegated)
       THEN [same EXCEPT !.op.state = "COMPLETED",
                         !.ins = IF op.stageId # INITIAL_REQUEST_ID
                                 THEN InAcknowledge(ins, op.request) ELSE ins]
       ELSE IF outState = "FAILED"
       THEN [same EXCEPT !.op.state = "FAILED", !.outs = OutCancel(outs, op.response)]
       ELSE same

\* mutant: the FAILED branch cancels the response again
ProgressFailedCancels(op, ins, outs) ==
    LET same == ProgressResult(op, ins, OutCancel(outs, op.response))
    IN IF op.detached
       THEN IF op.request = 0 THEN [same EXCEPT !.assertFailed = TRUE]
            ELSE [same EXCEPT !.ins = InFail(ins, op.request)]
       ELSE same

\* ServerOp::makeProgress, lines 210-216: the FAILED branch
ProgressFailed(op, ins, outs) ==
    LET same == ProgressResult(op, ins, outs)
    IN IF op.detached
       THEN IF op.request = 0 THEN [same EXCEPT !.assertFailed = TRUE]
            ELSE [same EXCEPT !.ins = InFail(ins, op.request)]
       ELSE same

\* mutant: the branch for IN_PROGRESS is taken in every state but NOT_STARTED
MakeProgressInAnyState(op, ins, outs) ==
    IF op.state # "NOT_STARTED" THEN ProgressInProgress(op, ins, outs)
    ELSE ProgressResult(op, ins, outs)

\* ServerOp::makeProgress on op with the buffers ins and outs
MakeProgress(op, ins, outs) ==
    CASE op.state = "IN_PROGRESS" -> ProgressInProgress(op, ins, outs)
      [] op.state = "FAILED" -> ProgressFailed(op, ins, outs)
      [] OTHER -> ProgressResult(op, ins, outs)

\* mutant: the destructor detaches every op that is not detached yet
DetachAlways(op) == ~op.detached

\* ServerOp::~ServerOp, line 130: the op is handed to the detached list
DetachCondition(op) ==
    op.transport /\ ~op.detached /\ op.state # "NOT_STARTED"

\* mutant: the destructor releases the request and forgets the response
ReleaseRequestOnly(op, ins, outs) ==
    [ins |-> IF op.request # 0 THEN InRelease(ins, op.request) ELSE ins,
     outs |-> outs]

\* ServerOp::~ServerOp, lines 136-141
ReleaseBuffers(op, ins, outs) ==
    [ins |-> IF op.request # 0 THEN InRelease(ins, op.request) ELSE ins,
     outs |-> IF op.response # 0 THEN OutRelease(outs, op.response) ELSE outs]

\* OpManager::receiveServerOp
ReceiveServerOp(s) ==
    /\ ~halted
    /\ ~sops[s].live
    /\ \A q \in ServerOpVarIds : q < s => sops[q].live
    /\ IF pendingServerOps # <<>>
       THEN /\ sops' = [sops EXCEPT ![s] =
                          [live |-> TRUE,
                           op |-> [Head(pendingServerOps) EXCEPT
                                      !.response = Len(outMsgs) + 1,
                                      !.transport = TRUE,
                                      !.state = "IN_PROGRESS"]]]
            /\ pendingServerOps' = Tail(pendingServerOps)
            /\ outMsgs' = Append(outMsgs, NewOutMessage)
       ELSE /\ sops' = [sops EXCEPT ![s] = [live |-> TRUE, op |-> EmptyServerOp]]
            /\ UNCHANGED <<pendingServerOps, outMsgs>>
    /\ UNCHANGED <<wire, remoteOps, nextOpSequenceNumber, detachedServerOps, rops, threads,
                   inMsgs, halted>>

\* ServerOp::operator=, called by the application's op = receiveServerOp() on a
\* ServerOp variable it already holds: the fields of the variable are
\* overwritten by those of the ServerOp OpManager::receiveServerOp returns; the
\* buffers the variable had are not released and the op it held is not detached
AssignReceivedServerOp(s) ==
    /\ ~halted
    /\ sops[s].live
    /\ IF pendingServerOps # <<>>
       THEN /\ sops' = [sops EXCEPT ![s] =
                          [live |-> TRUE,
                           op |-> [Head(pendingServerOps) EXCEPT
                                      !.response = Len(outMsgs) + 1,
                                      !.transport = TRUE,
                                      !.state = "IN_PROGRESS"]]]
            /\ pendingServerOps' = Tail(pendingServerOps)
            /\ outMsgs' = Append(outMsgs, NewOutMessage)
       ELSE /\ sops' = [sops EXCEPT ![s] = [live |-> TRUE, op |-> EmptyServerOp]]
            /\ UNCHANGED <<pendingServerOps, outMsgs>>
    /\ UNCHANGED <<wire, remoteOps, nextOpSequenceNumber, detachedServerOps, rops, threads,
                   inMsgs, halted>>

\* the application calls ServerOp::makeProgress on a ServerOp it holds
AppMakeProgress(s) ==
    /\ ~halted
    /\ sops[s].live
    /\ LET r == MakeProgress(sops[s].op, inMsgs, outMsgs)
       IN /\ sops' = [sops EXCEPT ![s].op = r.op]
          /\ inMsgs' = r.ins
          /\ outMsgs' = r.outs
          /\ halted' = r.assertFailed
    /\ UNCHANGED <<wire, managerVars, rops, threads>>

\* ServerOp::reply
Reply(s) ==
    /\ ~halted
    /\ sops[s].live
    /\ LET op == sops[s].op
       IN outMsgs' = IF op.request # 0
                     THEN OutSend(outMsgs, op.response,
                                  Header(op.opId, ULTIMATE_RESPONSE_ID, op.replyAddress),
                                  op.replyAddress)
                     ELSE outMsgs
    /\ UNCHANGED <<wire, managerVars, rops, sops, threads, inMsgs, halted>>

\* ServerOp::delegate
Delegate(s, destination) ==
    /\ ~halted
    /\ sops[s].live
    /\ LET op == sops[s].op
       IN IF op.request # 0
          THEN /\ sops' = [sops EXCEPT ![s].op.delegated = TRUE]
               /\ outMsgs' = OutSend(outMsgs, op.response,
                                     Header(op.opId, op.stageId + 1, op.replyAddress),
                                     destination)
          ELSE UNCHANGED <<sops, outMsgs>>
    /\ UNCHANGED <<wire, managerVars, rops, threads, inMsgs, halted>>

\* ServerOp::~ServerOp of a ServerOp the application holds
DestroyServerOp(s) ==
    /\ ~halted
    /\ sops[s].live
    /\ LET op == sops[s].op
           rel == ReleaseBuffers(op, inMsgs, outMsgs)
       IN IF DetachCondition(op)
          THEN /\ detachedServerOps' =
                     Append(detachedServerOps, [op EXCEPT !.detached = TRUE])
               /\ UNCHANGED <<inMsgs, outMsgs>>
          ELSE /\ inMsgs' = rel.ins
               /\ outMsgs' = rel.outs
               /\ UNCHANGED detachedServerOps
    /\ sops' = [sops EXCEPT ![s] = NoServerOpVar]
    /\ UNCHANGED <<wire, remoteOps, nextOpSequenceNumber, pendingServerOps, rops, threads,
                   halted>>

\* ------------------------------------------------------ OpManager::poll
\* OpManager::poll, line 294: internal->poll()
PollStart(t) ==
    /\ ~halted
    /\ threads[t].pc = "idle"
    /\ threads' = [threads EXCEPT ![t] = [IdleThread EXCEPT !.pc = "receive"]]
    /\ UNCHANGED <<wire, managerVars, rops, sops, inMsgs, outMsgs, halted>>

\* OpManager::poll, lines 296-300: internal->receive() has returned a message
\* with header h (threads[t].op is the RemoteOp of the wait() that called poll())
ReceiveMessage(t, h) ==
    /\ threads' = [threads EXCEPT ![t] = [IdleThread EXCEPT !.pc = "handle",
                                                !.op = threads[t].op,
                                                !.message = Len(inMsgs) + 1,
                                                !.header = h]]
    /\ inMsgs' = Append(inMsgs, NewInMessage)

\* OpManager::poll, lines 296-300: internal->receive() returns a message with a
\* header of the set headers
PollReceive(t, headers) ==
    /\ ~halted
    /\ threads[t].pc = "receive"
    /\ Len(inMsgs) < MaxInMessages
    /\ \E h \in headers : ReceiveMessage(t, h)
    /\ UNCHANGED <<wire, managerVars, rops, sops, outMsgs, halted>>

\* OpManager::poll, lines 296-300: internal->receive() returns the message that
\* arrived first
PollReceiveArrived(t) ==
    /\ ~halted
    /\ threads[t].pc = "receive"
    /\ Len(inMsgs) < MaxInMessages
    /\ wire # <<>>
    /\ ReceiveMessage(t, Head(wire))
    /\ wire' = Tail(wire)
    /\ UNCHANGED <<managerVars, rops, sops, outMsgs, halted>>

\* mutant: a response without RemoteOp is not released
HandleResponseNoRelease(t) ==
    LET message == threads[t].message
        r == remoteOps[threads[t].header.opId]
    IN IF r # 0
       THEN /\ rops' = [rops EXCEPT ![r].response = message, ![r].state = "COMPLETED"]
            /\ outMsgs' = OutCancel(outMsgs, rops[r].request)
            /\ UNCHANGED <<inMsgs, pendingServerOps>>
       ELSE UNCHANGED <<inMsgs, rops, outMsgs, pendingServerOps>>

\* mutant: the response is attached and the state is left as it was
HandleResponseNoStore(t) ==
    LET message == threads[t].message
        r == remoteOps[threads[t].header.opId]
    IN IF r # 0
       THEN /\ rops' = [rops EXCEPT ![r].response = message]
            /\ outMsgs' = OutCancel(outMsgs, rops[r].request)
            /\ UNCHANGED <<inMsgs, pendingServerOps>>
       ELSE /\ inMsgs' = InRelease(inMsgs, message)
            /\ UNCHANGED <<rops, outMsgs, pendingServerOps>>

\* OpManager::poll, lines 305-313: a response, under the lock
HandleResponse(t) ==
    LET message == threads[t].message
        r == remoteOps[threads[t].header.opId]
    IN IF r # 0
       THEN /\ rops' = [rops EXCEPT ![r].response = message, ![r].state = "COMPLETED"]
            /\ outMsgs' = OutCancel(outMsgs, rops[r].request)
            /\ UNCHANGED <<inMsgs, pendingServerOps>>
       ELSE /\ inMsgs' = InRelease(inMsgs, message)
            /\ UNCHANGED <<rops, outMsgs, pendingServerOps>>

\* OpManager::poll, lines 316-322: a request
HandleRequest(t) ==
    /\ pendingServerOps' =
           Append(pendingServerOps,
                  [EmptyServerOp EXCEPT !.request = threads[t].message,
                                        !.opId = threads[t].header.opId,
                                        !.stageId = threads[t].header.stageId,
                                        !.replyAddress = threads[t].header.replyAddress])
    /\ UNCHANGED <<rops, inMsgs, outMsgs>>

\* OpManager::poll, lines 301-323: one message of the receive loop
PollHandle(t) ==
    /\ ~halted
    /\ threads[t].pc = "handle"
    /\ IF threads[t].header.stageId = ULTIMATE_RESPONSE_ID
       THEN HandleResponse(t)
       ELSE HandleRequest(t)
    /\ threads' = [threads EXCEPT ![t] = [IdleThread EXCEPT !.pc = "receive",
                                                          !.op = threads[t].op]]
    /\ UNCHANGED <<wire, remoteOps, nextOpSequenceNumber, detachedServerOps, sops, halted>>

\* OpManager::poll, lines 329-340: the walk over the detached list.  An erased
\* element is destroyed; its destructor would take the lock poll() holds if it
\* detached the element again.
RECURSIVE CheckDetached(_, _, _)
CheckDetached(list, ins, outs) ==
    IF list = <<>>
    THEN [list |-> <<>>, ins |-> ins, outs |-> outs, stop |-> FALSE]
    ELSE LET r == MakeProgress(Head(list), ins, outs)
         IN IF r.assertFailed \/ r.op.state = "NOT_STARTED"
            THEN [list |-> list, ins |-> r.ins, outs |-> r.outs, stop |-> TRUE]
            ELSE IF r.op.state = "IN_PROGRESS"
            THEN LET rest == CheckDetached(Tail(list), r.ins, r.outs)
                 IN [rest EXCEPT !.list = <<r.op>> \o @]
            ELSE IF DetachCondition(r.op)
            THEN [list |-> list, ins |-> r.ins, outs |-> r.outs, stop |-> TRUE]
            ELSE LET rel == ReleaseBuffers(r.op, r.ins, r.outs)
                 IN CheckDetached(Tail(list), rel.ins, rel.outs)

\* where poll() returns to: the loop of RemoteOp::wait() of the RemoteOp r (line
\* 89), or the application (r = 0)
AfterPoll(r) ==
    IF r # 0 THEN [IdleThread EXCEPT !.pc = "wait", !.op = r] ELSE IdleThread

\* OpManager::poll, lines 296-297 and 326-341: internal->receive() returns
\* nullptr, the receive loop ends and the detached list is walked under the lock
PollDetached(t) ==
    /\ ~halted
    /\ threads[t].pc = "receive"
    /\ LET w == CheckDetached(detachedServerOps, inMsgs, outMsgs)
       IN /\ detachedServerOps' = w.list
          /\ inMsgs' = w.ins
          /\ outMsgs' = w.outs
          /\ halted' = w.stop
    /\ threads' = [threads EXCEPT ![t] = AfterPoll(threads[t].op)]
    /\ UNCHANGED <<wire, remoteOps, nextOpSequenceNumber, pendingServerOps, rops, sops>>

\* OpManager::poll when no message has arrived: receive() returns nullptr
PollNothingArrived(t) ==
    /\ wire = <<>>
    /\ PollDetached(t)

\* ------------------------------------------------------- the transport
\* the ServerOps claimed with receiveServerOp() that are held by the application
\* or detached
ClaimedOf(detachedOps, held) ==
    {detachedOps[i] : i \in DOMAIN detachedOps}
    \cup {held[s].op : s \in {q \in ServerOpVarIds : held[q].live /\ held[q].op.request # 0}}

ClaimedServerOps == ClaimedOf(detachedServerOps, sops)

\* the status of a buffer the transport is sending moves on
OutStatusChange(o, status) ==
    /\ ~halted
    /\ outMsgs[o].active
    /\ \/ outMsgs[o].status = "NOT_STARTED" /\ status \in {"SENT", "FAILED"}
       \/ outMsgs[o].status = "SENT" /\ status \in {"COMPLETED", "FAILED"}
    /\ outMsgs' = [outMsgs EXCEPT ![o].status = status]
    /\ UNCHANGED <<wire, managerVars, rops, sops, threads, inMsgs, halted>>

\* the transport marks the request of a claimed ServerOp dropped (Op.cc reads
\* the mark in makeProgress() only)
RequestDropped(m) ==
    /\ ~halted
    /\ m \in {op.request : op \in ClaimedServerOps}
    /\ ~inMsgs[m].dropped
    /\ inMsgs' = [inMsgs EXCEPT ![m].dropped = TRUE]
    /\ UNCHANGED <<wire, managerVars, rops, sops, threads, outMsgs, halted>>

\* a transport that delivers every message: the buffer o has been transmitted
\* and its message has arrived at the receiver
Transmit(o) ==
    /\ ~halted
    /\ outMsgs[o].active
    /\ outMsgs[o].status = "NOT_STARTED"
    /\ outMsgs' = [outMsgs EXCEPT ![o].status = "SENT"]
    /\ wire' = Append(wire, outMsgs[o].header)
    /\ UNCHANGED <<managerVars, rops, sops, threads, inMsgs, halted>>

\* ------------------------------------------------------- specifications
\* OpManager::OpManager
Init ==
    /\ remoteOps = [i \in SequenceNumbers |-> 0]
    /\ nextOpSequenceNumber = FirstSequenceNumber
    /\ pendingServerOps = <<>>
    /\ detachedServerOps = <<>>
    /\ rops = [r \in RemoteOpIds |-> NoRemoteOp]
    /\ sops = [s \in ServerOpVarIds |-> NoServerOpVar]
    /\ threads = [t \in Threads |-> IdleThread]
    /\ inMsgs = <<>>
    /\ outMsgs = <<>>
    /\ halted = FALSE
    /\ wire = <<>>

ClientStep ==
    \/ \E r \in RemoteOpIds : NewRemoteOp(r)
    \/ \E t \in Threads, r \in RemoteOpIds : SendStore(t, r)
    \/ \E t \in Threads, d \in Destinations : SendLocked(t, d)
    \/ \E t \in Threads, r \in RemoteOpIds : IsReadyLoad(t, r)
    \/ \E t \in Threads : IsReadySwitch(t)
    \/ \E t \in Threads, r \in RemoteOpIds : DestroyRelease(t, r)
    \/ \E t \in Threads : DestroyErase(t)

ServerStep ==
    \/ \E s \in ServerOpVarIds : ReceiveServerOp(s)
    \/ \E s \in ServerOpVarIds : AppMakeProgress(s)
    \/ \E s \in ServerOpVarIds : Reply(s)
    \/ \E s \in ServerOpVarIds, d \in Destinations : Delegate(s, d)
    \/ \E s \in ServerOpVarIds : DestroyServerOp(s)
    \/ \E m \in DOMAIN inMsgs : RequestDropped(m)

PollStep(headers) ==
    \/ \E t \in Threads : PollStart(t)
    \/ \E t \in Threads : PollReceive(t, headers)
    \/ \E t \in Threads : PollHandle(t)
    \/ \E t \in Threads : PollDetached(t)

TransportStep ==
    \E o \in DOMAIN outMsgs, status \in {"SENT", "COMPLETED", "FAILED"} :
        OutStatusChange(o, status)

\* the calling side: RemoteOps and poll()
NextClient == ClientStep \/ PollStep(ClientHeaders) \/ TransportStep

SpecClient == Init /\ [][NextClient]_vars

\* the serving side: ServerOps and poll()
NextServer == ServerStep \/ PollStep(ServerHeaders) \/ TransportStep

SpecServer == Init /\ [][NextServer]_vars

\* the serving side with a server that assigns to a ServerOp variable it holds
AssignStep == \E s \in ServerOpVarIds : AssignReceivedServerOp(s)

NextMoves == ServerStep \/ AssignStep \/ PollStep(ServerHeaders) \/ TransportStep

SpecMoves == Init /\ [][NextMoves]_vars

\* A chain of servers: every server of the chain runs this code, and the model's
\* manager takes the part of each of them in turn.  receive() returns a request
\* of the original caller or a message that reply() or delegate() has sent.
ChainHeaders ==
    {Header(1, s, OriginalCaller) : s \in ChainStages}
    \cup {outMsgs[o].header : o \in {q \in DOMAIN outMsgs : outMsgs[q].active}}

NextChain == ServerStep \/ PollStep(ChainHeaders) \/ TransportStep

SpecChain == Init /\ [][NextChain]_vars

\* The round trip: one RemoteOp is sent to a server whose manager is this one
\* (the manager takes both parts), the transport delivers every message and
\* loses none, and the server replies at most once.  Threads call send() and
\* wait() on the RemoteOp, or poll().
RoundTripOp == 1

ReplyOnce(s) ==
    /\ sops[s].live
    /\ sops[s].op.request # 0
    /\ ~outMsgs[sops[s].op.response].active
    /\ Reply(s)

ThreadStep(t) ==
    \/ SendStore(t, RoundTripOp)
    \/ \E d \in Destinations : SendLocked(t, d)
    \/ WaitStart(t, RoundTripOp)
    \/ WaitLoad(t)
    \/ WaitSwitch(t)
    \/ PollStart(t)
    \/ PollReceiveArrived(t)
    \/ PollHandle(t)
    \/ PollNothingArrived(t)

ServerApplicationStep ==
    \/ \E s \in ServerOpVarIds : ReceiveServerOp(s)
    \/ \E s \in ServerOpVarIds : ReplyOnce(s)
    \/ \E s \in ServerOpVarIds : AppMakeProgress(s)
    \/ \E s \in ServerOpVarIds : DestroyServerOp(s)

DeliveryStep ==
    \/ \E o \in DOMAIN outMsgs : Transmit(o)
    \/ \E o \in DOMAIN outMsgs : OutStatusChange(o, "COMPLETED")

NextRoundTrip ==
    \/ NewRemoteOp(RoundTripOp)
    \/ \E t \in Threads : ThreadStep(t)
    \/ ServerApplicationStep
    \/ DeliveryStep

\* every thread goes on with the call it is in and calls poll() or wait() again
\* when it has returned (spec 5: poll() must be invoked periodically); the
\* transport goes on delivering
SpecRoundTrip ==
    /\ Init
    /\ [][NextRoundTrip]_vars
    /\ \A t \in Threads : WF_vars(ThreadStep(t))
    /\ WF_vars(DeliveryStep)

\* ================================================================ claims
RemoteOpTransitions ==
    {<<"NOT_STARTED", "IN_PROGRESS">>, <<"IN_PROGRESS", "COMPLETED">>,
     <<"IN_PROGRESS", "FAILED">>}

TerminalStates == {"COMPLETED", "DROPPED", "FAILED"}

\* thread t leaves PollHandle / PollDetached in this step
HandledBy(t) == threads[t].pc = "handle" /\ threads'[t].pc = "receive"
WalkedBy(t) == threads[t].pc = "receive" /\ threads'[t].pc = "idle"

\* the request m is the request of no element of the detached list
NotDetached(detachedOps, m) ==
    \A j \in DOMAIN detachedOps : detachedOps[j].request # m

\* the state makeProgress() leaves the ServerOp op in
StateAfterProgress(op) == MakeProgress(op, inMsgs, outMsgs).op.state

\* C1: every change of the state of a RemoteOp is NOT_STARTED -> IN_PROGRESS,
\* IN_PROGRESS -> COMPLETED or IN_PROGRESS -> FAILED; a state that is COMPLETED
\* or FAILED never changes again.
C1_RemoteOpStateOnlyForward ==
    [][\A r \in RemoteOpIds :
          (/\ rops[r].life = "alive"
           /\ rops'[r].life = "alive"
           /\ rops'[r].state # rops[r].state)
          => <<rops[r].state, rops'[r].state>> \in RemoteOpTransitions]_vars

\* C2: a ServerOp that receiveServerOp() returns non-empty is IN_PROGRESS, and
\* the state of a claimed ServerOp (held by the application or detached) changes
\* only from IN_PROGRESS to COMPLETED, DROPPED or FAILED.
C2_ServerOpStateOnlyForward ==
    [][/\ \A s \in ServerOpVarIds :
             (~sops[s].live /\ sops'[s].live /\ sops'[s].op.request # 0)
             => sops'[s].op.state = "IN_PROGRESS"
       /\ \A a \in ClaimedServerOps :
             \A b \in ClaimedOf(detachedServerOps', sops') :
                (a.request = b.request /\ a.state # b.state)
                => (a.state = "IN_PROGRESS" /\ b.state \in TerminalStates)]_vars

\* a claimed ServerOp was delegated and then moved to a final state
C2_Witness ==
    \E op \in ClaimedServerOps :
        /\ op.state \in TerminalStates
        /\ op.delegated
        /\ outMsgs[op.response].header.stageId = ULTIMATE_RESPONSE_ID

\* C3: a ServerOp that leaves the detached list in state FAILED has had fail()
\* called on its request exactly once, whether it was FAILED when it was
\* detached or turned FAILED in the list.
C3_DetachedFailedIsFailedOnce ==
    [][\A i \in DOMAIN detachedServerOps :
          LET op == detachedServerOps[i]
          IN (/\ NotDetached(detachedServerOps', op.request)
              /\ StateAfterProgress(op) = "FAILED")
             => inMsgs'[op.request].failed = 1]_vars

\* C4: a ServerOp leaves the detached list only with one of three signals: its
\* response was sent and it is COMPLETED, fail() was called on its request, or
\* its request is reported dropped.
C4_DetachedLeavesWithSignal ==
    [][\A i \in DOMAIN detachedServerOps :
          LET op == detachedServerOps[i]
          IN NotDetached(detachedServerOps', op.request)
             => \/ StateAfterProgress(op) = "COMPLETED" /\ outMsgs[op.response].active
                \/ inMsgs'[op.request].failed >= 1
                \/ inMsgs[op.request].dropped]_vars

\* C5: destroying a held IN_PROGRESS ServerOp puts it in the detached list with
\* detached = TRUE and its buffers not released; every walk of poll() calls
\* makeProgress() on each element, keeps it (with the state makeProgress() left)
\* while that state is IN_PROGRESS and otherwise removes it and releases its
\* two buffers in that same walk; no other step removes or changes an element.
C5_DetachedUntilTerminal ==
    [][/\ \A s \in ServerOpVarIds :
             LET op == sops[s].op
             IN (sops[s].live /\ ~sops'[s].live /\ op.state = "IN_PROGRESS")
                => /\ detachedServerOps' =
                         Append(detachedServerOps, [op EXCEPT !.detached = TRUE])
                   /\ inMsgs'[op.request].released = 0
                   /\ outMsgs'[op.response].released = 0
       /\ \A i \in DOMAIN detachedServerOps :
             LET op == detachedServerOps[i]
                 after == StateAfterProgress(op)
             IN IF \E t \in Threads : WalkedBy(t)
                THEN IF after = "IN_PROGRESS"
                     THEN /\ \E j \in DOMAIN detachedServerOps' :
                                detachedServerOps'[j] = op
                          /\ inMsgs'[op.request].released = 0
                          /\ outMsgs'[op.response].released = 0
                     ELSE /\ NotDetached(detachedServerOps', op.request)
                          /\ inMsgs'[op.request].released = 1
                          /\ outMsgs'[op.response].released = 1
                ELSE /\ i \in DOMAIN detachedServerOps'
                     /\ detachedServerOps'[i] = op
                     /\ inMsgs'[op.request].released = 0
                     /\ outMsgs'[op.response].released = 0]_vars

\* an IN_PROGRESS op was detached after one that a walk removed and released
C5_Witness ==
    /\ \E i \in DOMAIN detachedServerOps :
          /\ detachedServerOps[i].state = "IN_PROGRESS"
          /\ detachedServerOps[i].detached
          /\ outMsgs[detachedServerOps[i].response].status = "SENT"
    /\ \E o \in DOMAIN outMsgs : outMsgs[o].released = 1 /\ outMsgs[o].cancelled = 1

\* C6: at most one response is ever attached to a RemoteOp: once it has a
\* response, no later message takes its place.
C6_ResponseAttachedOnce ==
    [][\A r \in RemoteOpIds :
          (rops[r].response # 0 /\ rops'[r].life = "alive")
          => rops'[r].response = rops[r].response]_vars

\* C7: every send() gets the operation id nextOpSequenceNumber had, which then
\* grows, so the id differs from every id assigned before; no two RemoteOps
\* have one id, an entry of the map leads to the RemoteOp with that id, and no
\* message is the response of two RemoteOps.
C7_UniqueIds ==
    /\ \A r \in RemoteOpIds :
          rops[r].opId # NoOpId => rops[r].opId < nextOpSequenceNumber
    /\ \A r, q \in RemoteOpIds :
          (r # q /\ rops[r].opId # NoOpId) => rops[r].opId # rops[q].opId
    /\ \A i \in DOMAIN remoteOps :
          remoteOps[i] # 0 => rops[remoteOps[i]].opId = i
    /\ \A r, q \in RemoteOpIds :
          (r # q /\ rops[r].response # 0) => rops[r].response # rops[q].response

C7_SendAssignsFreshId ==
    [](C7_UniqueIds)
    /\ [][/\ nextOpSequenceNumber' >= nextOpSequenceNumber
          /\ \A r \in RemoteOpIds :
                rops'[r].opId # rops[r].opId
                => /\ rops[r].opId = NoOpId
                   /\ rops'[r].opId = nextOpSequenceNumber
                   /\ nextOpSequenceNumber' > nextOpSequenceNumber
                   /\ remoteOps'[rops'[r].opId] = r]_vars

\* two RemoteOps were sent, the second one first, and each has its response
C7_Witness ==
    /\ rops[1].opId = 2
    /\ rops[2].opId = 1
    /\ rops[1].response # 0
    /\ rops[2].response # 0

\* C8: the map has no entry for a destroyed RemoteOp, and a response with its
\* operation id that poll() handles afterwards is released and changes no
\* RemoteOp.
C8_NoEntryAfterDestroy ==
    [](\A r \in RemoteOpIds :
          rops[r].life = "destroyed"
          => \A i \in DOMAIN remoteOps : remoteOps[i] # r)
    /\ [][\A t \in Threads, r \in RemoteOpIds :
             (/\ HandledBy(t)
              /\ threads[t].header.stageId = ULTIMATE_RESPONSE_ID
              /\ rops[r].life = "destroyed"
              /\ threads[t].header.opId = rops[r].opId)
             => /\ inMsgs'[threads[t].message].released = 1
                /\ rops' = rops]_vars

\* a RemoteOp was destroyed while IN_PROGRESS and a response with its id is
\* about to be handled
C8_Witness ==
    \E t \in Threads, r \in RemoteOpIds :
        /\ threads[t].pc = "handle"
        /\ threads[t].header.stageId = ULTIMATE_RESPONSE_ID
        /\ rops[r].life = "destroyed"
        /\ rops[r].opId = threads[t].header.opId
        /\ outMsgs[rops[r].request].cancelled = 0

\* C9: a response whose operation id has no entry in the map is released exactly
\* once, is attached to no RemoteOp and not put in the pending FIFO, and leaves
\* every RemoteOp and every request buffer as they were.
C9_UnmatchedResponseReleased ==
    [](\A m \in DOMAIN inMsgs : inMsgs[m].released <= 1)
    /\ [][\A t \in Threads :
             (/\ HandledBy(t)
              /\ threads[t].header.stageId = ULTIMATE_RESPONSE_ID
              /\ remoteOps[threads[t].header.opId] = 0)
             => /\ inMsgs[threads[t].message].released = 0
                /\ inMsgs'[threads[t].message].released = 1
                /\ \A r \in RemoteOpIds : rops'[r].response # threads[t].message
                /\ rops' = rops
                /\ outMsgs' = outMsgs
                /\ pendingServerOps' = pendingServerOps]_vars

\* a response for an id without entry is about to be handled while another
\* RemoteOp is registered and IN_PROGRESS
C9_Witness ==
    \E t \in Threads, r \in RemoteOpIds :
        /\ threads[t].pc = "handle"
        /\ threads[t].header.stageId = ULTIMATE_RESPONSE_ID
        /\ remoteOps[threads[t].header.opId] = 0
        /\ rops[r].state = "IN_PROGRESS"
        /\ remoteOps[rops[r].opId] = r
        /\ \A q \in RemoteOpIds : rops[q].life # "destroyed"

\* C10: receiveServerOp() returns the ServerOps in the order in which receive()
\* returned their requests, and an empty ServerOp only when the FIFO is empty.
C10_ClaimedInReceiveOrder ==
    [][\A s \in ServerOpVarIds :
          (~sops[s].live /\ sops'[s].live)
          => IF sops'[s].op.request = 0
             THEN pendingServerOps = <<>>
             ELSE /\ \A i \in DOMAIN pendingServerOps' :
                        pendingServerOps'[i].request > sops'[s].op.request
                  /\ \A t \in Threads :
                        (/\ threads[t].pc = "handle"
                         /\ threads[t].header.stageId # ULTIMATE_RESPONSE_ID)
                        => threads[t].message > sops'[s].op.request]_vars

\* the claimed ServerOp a is IN_PROGRESS and this step's makeProgress() (called
\* by the application, or by the walk of poll() for a detached op) makes it
\* COMPLETED
BecomesCompleted(a) ==
    /\ a.state = "IN_PROGRESS"
    /\ \/ \E s \in ServerOpVarIds :
             /\ sops[s].live /\ sops[s].op = a
             /\ sops'[s].live
             /\ sops'[s].op.request = a.request
             /\ sops'[s].op.state = "COMPLETED"
       \/ /\ \E i \in DOMAIN detachedServerOps : detachedServerOps[i] = a
          /\ \E t \in Threads : WalkedBy(t)
          /\ StateAfterProgress(a) = "COMPLETED"

\* the last message sent with the response buffer of a was sent by delegate()
Forwarded(a) ==
    /\ a.delegated
    /\ outMsgs[a.response].header.stageId = a.stageId + 1

\* C11 as stated: in the delegation scenario the step that moves A's ServerOp
\* (stage 0, delegated) to COMPLETED calls acknowledge() on A's request, and
\* is taken only when the forwarded message has status COMPLETED.
C11_DelegatedAcknowledgedOnCompletion ==
    [][\A a \in ClaimedServerOps :
          (/\ a.stageId = INITIAL_REQUEST_ID
           /\ Forwarded(a)
           /\ BecomesCompleted(a))
          => /\ outMsgs[a.response].status = "COMPLETED"
             /\ inMsgs'[a.request].acknowledged = inMsgs[a.request].acknowledged + 1]_vars

\* C11 amended: a ServerOp that forwarded its request with delegate() moves to
\* COMPLETED only when the forwarded message has status COMPLETED; that step
\* calls acknowledge() on the request once if the request's stage is not 0 and
\* not at all if it is 0, as for A's request in the scenario, which is never
\* acknowledged.
C11_DelegatedCompletesOnDelivery ==
    [](\A m \in DOMAIN inMsgs : inMsgs[m].acknowledged <= 1)
    /\ [](\A a \in ClaimedServerOps :
            a.stageId = INITIAL_REQUEST_ID => inMsgs[a.request].acknowledged = 0)
    /\ [][\A a \in ClaimedServerOps :
             (Forwarded(a) /\ BecomesCompleted(a))
             => /\ outMsgs[a.response].status = "COMPLETED"
                /\ inMsgs'[a.request].acknowledged =
                      inMsgs[a.request].acknowledged
                      + (IF a.stageId # INITIAL_REQUEST_ID THEN 1 ELSE 0)]_vars

\* A's ServerOp of the scenario is COMPLETED: stage 0, forwarded, the forwarded
\* message delivered, the request not acknowledged
C11_Witness ==
    \E a \in ClaimedServerOps :
        /\ a.stageId = INITIAL_REQUEST_ID
        /\ Forwarded(a)
        /\ a.state = "COMPLETED"
        /\ outMsgs[a.response].status = "COMPLETED"
        /\ inMsgs[a.request].acknowledged = 0

\* the ServerOp poll() makes of a request with header h
ServerOpOf(h, message) ==
    [EmptyServerOp EXCEPT !.request = message, !.opId = h.opId,
                          !.stageId = h.stageId, !.replyAddress = h.replyAddress]

\* in this step the held ServerOp of variable s sends its response buffer to
\* the address destination
SendsTo(s, destination) ==
    /\ sops[s].live /\ sops'[s].live
    /\ sops[s].op.request # 0
    /\ sops'[s].op.request = sops[s].op.request
    /\ outMsgs'[sops[s].op.response] # outMsgs[sops[s].op.response]
    /\ outMsgs'[sops[s].op.response].active
    /\ outMsgs'[sops[s].op.response].status = "NOT_STARTED"
    /\ outMsgs'[sops[s].op.response].destination = destination

\* C12: delegate(dest) on a ServerOp of stage s sends to dest a header with the
\* same operation id, stage s + 1 and the reply address of the original caller;
\* the poll() that receives a message sent by delegate() appends to the FIFO a
\* ServerOp with exactly that id, stage and reply address; reply() sends the
\* ultimate-response marker with the same id to the original caller; this for
\* a chain of any length (any stage s a request can carry).
C12_DelegationChain ==
    [][/\ \A s \in ServerOpVarIds, d \in Destinations :
             SendsTo(s, d)
             => outMsgs'[sops[s].op.response].header =
                   Header(sops[s].op.opId, sops[s].op.stageId + 1, OriginalCaller)
       /\ \A t \in Threads :
             (/\ HandledBy(t)
              /\ \E o \in DOMAIN outMsgs :
                    /\ outMsgs[o].active
                    /\ outMsgs[o].destination \in Destinations
                    /\ outMsgs[o].header = threads[t].header)
             => pendingServerOps' =
                   Append(pendingServerOps,
                          ServerOpOf(threads[t].header, threads[t].message))
       /\ \A s \in ServerOpVarIds :
             SendsTo(s, OriginalCaller)
             => outMsgs'[sops[s].op.response].header =
                   Header(sops[s].op.opId, ULTIMATE_RESPONSE_ID, OriginalCaller)]_vars

\* the request of the round trip's RemoteOp was sent and receive() has returned
\* no message yet
RequestOnItsWay ==
    /\ rops[RoundTripOp].opId # NoOpId
    /\ inMsgs = <<>>

\* the pending FIFO holds a ServerOp with the client's operation id and stage 0
RequestEnqueued ==
    \E i \in DOMAIN pendingServerOps :
        /\ pendingServerOps[i].opId = rops[RoundTripOp].opId
        /\ pendingServerOps[i].stageId = INITIAL_REQUEST_ID
        /\ pendingServerOps[i].replyAddress = LocalAddress

\* the server has claimed the ServerOp of the client's request and called reply()
ServerReplied ==
    \E a \in ClaimedServerOps :
        /\ a.opId = rops[RoundTripOp].opId
        /\ outMsgs[a.response].active
        /\ outMsgs[a.response].header = Header(a.opId, ULTIMATE_RESPONSE_ID, LocalAddress)

\* a message is attached as the response, the state is COMPLETED and no thread
\* is inside wait()
RoundTripDone ==
    /\ rops[RoundTripOp].state = "COMPLETED"
    /\ rops[RoundTripOp].response \in DOMAIN inMsgs
    /\ inMsgs[rops[RoundTripOp].response].released = 0
    /\ \A t \in Threads : threads[t].op # RoundTripOp

\* C13: with a transport that delivers every message, after send() a poll()
\* enqueues a ServerOp with the client's operation id and stage 0; after the
\* server has claimed it and called reply(), repeated poll() or wait()
\* eventually attaches the reply as the response of the RemoteOp and sets its
\* state to COMPLETED, and wait() returns.
C13_RoundTrip ==
    /\ RequestOnItsWay ~> RequestEnqueued
    /\ ServerReplied ~> RoundTripDone

\* the round trip is over: the response is attached, wait() has returned and
\* the server's ServerOp is COMPLETED
C13_Witness ==
    /\ RoundTripDone
    /\ \A t \in Threads : threads[t].pc = "idle"
    /\ \E a \in ClaimedServerOps : a.opId = rops[RoundTripOp].opId /\ a.state = "COMPLETED"

\* C14: makeProgress() on a ServerOp that is COMPLETED, DROPPED or FAILED leaves
\* its state as it is and calls neither acknowledge() nor cancel(), however often
\* it is called; no step acknowledges the request or cancels the response of a
\* ServerOp in such a state, and over its life acknowledge() is called on a
\* request at most once and cancel() on a response at most once.
C14_TerminalMakeProgressIdempotent ==
    [](/\ \A a \in ClaimedServerOps :
             a.state \in TerminalStates
             => LET r == MakeProgress(a, inMsgs, outMsgs)
                    again == MakeProgress(r.op, r.ins, r.outs)
                IN /\ r.op = a
                   /\ r.outs = outMsgs
                   /\ \A m \in DOMAIN inMsgs :
                         r.ins[m].acknowledged = inMsgs[m].acknowledged
                   /\ again.op = a
                   /\ again.outs = outMsgs
                   /\ \A m \in DOMAIN inMsgs :
                         again.ins[m].acknowledged = inMsgs[m].acknowledged
       /\ \A m \in DOMAIN inMsgs : inMsgs[m].acknowledged <= 1
       /\ \A o \in DOMAIN outMsgs : outMsgs[o].cancelled <= 1)
    /\ [][\A a \in ClaimedServerOps :
             a.state \in TerminalStates
             => /\ inMsgs'[a.request].acknowledged = inMsgs[a.request].acknowledged
                /\ outMsgs'[a.response].cancelled = outMsgs[a.response].cancelled
                /\ \A b \in ClaimedOf(detachedServerOps', sops') :
                      b.request = a.request => b.state = a.state]_vars

\* the detached list holds a COMPLETED op whose request was acknowledged and a
\* FAILED op whose response was cancelled: the next walk calls makeProgress()
\* on both
C14_Witness ==
    /\ \E i \in DOMAIN detachedServerOps :
          /\ detachedServerOps[i].state = "COMPLETED"
          /\ inMsgs[detachedServerOps[i].request].acknowledged = 1
    /\ \E i \in DOMAIN detachedServerOps :
          /\ detachedServerOps[i].state = "FAILED"
          /\ outMsgs[detachedServerOps[i].response].cancelled = 1

\* C15: makeProgress() on an IN_PROGRESS ServerOp whose request reports dropped
\* sets the state to DROPPED whatever the status of the response is, and calls
\* none of acknowledge(), cancel() and fail(): the buffers are as they were,
\* and the step that makes the op DROPPED changes none of the three counts.
C15_DroppedComesFirst ==
    [](\A a \in ClaimedServerOps :
          (a.state = "IN_PROGRESS" /\ inMsgs[a.request].dropped)
          => LET r == MakeProgress(a, inMsgs, outMsgs)
             IN /\ r.op = [a EXCEPT !.state = "DROPPED"]
                /\ r.ins = inMsgs
                /\ r.outs = outMsgs
                /\ ~r.assertFailed)
    /\ [][\A a \in ClaimedServerOps :
             (/\ a.state = "IN_PROGRESS"
              /\ inMsgs[a.request].dropped
              /\ \/ \E t \in Threads : WalkedBy(t) /\ ~NotDetached(detachedServerOps, a.request)
                 \/ \E s \in ServerOpVarIds :
                       /\ sops[s].op = a
                       /\ sops'[s].op.request = a.request
                       /\ sops'[s].op.state # a.state)
             => /\ \A s \in ServerOpVarIds :
                      sops'[s].op.request = a.request => sops'[s].op.state = "DROPPED"
                /\ NotDetached(detachedServerOps', a.request)
                /\ inMsgs'[a.request].acknowledged = inMsgs[a.request].acknowledged
                /\ inMsgs'[a.request].failed = inMsgs[a.request].failed
                /\ outMsgs'[a.response].cancelled = outMsgs[a.response].cancelled]_vars

\* a held ServerOp is DROPPED though its response had FAILED, and neither
\* cancel() nor fail() nor acknowledge() was called
C15_Witness ==
    \E s \in ServerOpVarIds :
        /\ sops[s].live
        /\ sops[s].op.state = "DROPPED"
        /\ sops[s].op.stageId # INITIAL_REQUEST_ID
        /\ outMsgs[sops[s].op.response].status = "FAILED"
        /\ outMsgs[sops[s].op.response].cancelled = 0
        /\ inMsgs[sops[s].op.request].failed = 0
        /\ inMsgs[sops[s].op.request].acknowledged = 0

\* C16: isReady() returns true exactly when the state of the RemoteOp after the
\* call is COMPLETED or FAILED; it changes the state only from IN_PROGRESS, with
\* a request whose status is FAILED, to FAILED, and then returns true; it
\* changes nothing but the state.  (For a state other than IN_PROGRESS the call
\* is the single step IsReadyLoad, which changes nothing and returns
\* IsReadyResult of that state.)
C16_IsReadyResult ==
    [](\A r \in RemoteOpIds :
          rops[r].state # "IN_PROGRESS"
          => (IsReadyResult(rops[r].state, "NOT_STARTED")
                <=> rops[r].state \in {"COMPLETED", "FAILED"}))
    /\ [][\A t \in Threads :
             (threads[t].pc = "isReady" /\ threads'[t].pc = "idle")
             => LET r == threads[t].op
                    requestStatus == outMsgs[rops[r].request].status
                    result == IsReadyResult(threads[t].copyOfState, requestStatus)
                IN /\ result <=> rops'[r].state \in {"COMPLETED", "FAILED"}
                   /\ rops'[r].state # rops[r].state
                      => /\ rops[r].state = "IN_PROGRESS"
                         /\ requestStatus = "FAILED"
                         /\ rops'[r].state = "FAILED"
                         /\ result
                   /\ (rops[r].state = "IN_PROGRESS" /\ requestStatus = "FAILED")
                      => (rops'[r].state = "FAILED" /\ result)
                   /\ rops' = [rops EXCEPT ![r].state = rops'[r].state]
                   /\ UNCHANGED <<managerVars, sops, inMsgs, outMsgs, halted, wire>>]_vars

\* C17: makeProgress() moves an IN_PROGRESS ServerOp whose request is not
\* dropped to COMPLETED exactly when the status of its response is COMPLETED,
\* or is SENT and delegate() was never called on the op (the flag delegated is
\* set by every delegate() that sends and by nothing else, and never reset); an
\* op on which delegate() was called does not become COMPLETED while the
\* status of its response is SENT.
C17_CompletionCriterion ==
    [](\A a \in ClaimedServerOps :
          /\ (a.state = "IN_PROGRESS" /\ ~inMsgs[a.request].dropped)
             => (StateAfterProgress(a) = "COMPLETED"
                   <=> \/ outMsgs[a.response].status = "COMPLETED"
                       \/ outMsgs[a.response].status = "SENT" /\ ~a.delegated)
          /\ outMsgs[a.response].header.stageId = a.stageId + 1 => a.delegated)
    /\ [][/\ \A a \in ClaimedServerOps :
                /\ BecomesCompleted(a)
                   => \/ outMsgs[a.response].status = "COMPLETED"
                      \/ outMsgs[a.response].status = "SENT" /\ ~a.delegated
                /\ (a.delegated /\ outMsgs[a.response].status = "SENT")
                   => ~BecomesCompleted(a)
                /\ \A b \in ClaimedOf(detachedServerOps', sops') :
                      (b.request = a.request /\ a.delegated) => b.delegated
          /\ \A s \in ServerOpVarIds :
                (/\ sops[s].live /\ sops'[s].live
                 /\ sops'[s].op.request = sops[s].op.request
                 /\ sops[s].op.request # 0)
                => (sops'[s].op.delegated
                      <=> \/ sops[s].op.delegated
                          \/ /\ \E d \in Destinations : SendsTo(s, d)
                             /\ outMsgs'[sops[s].op.response].header.stageId
                                   = sops[s].op.stageId + 1)]_vars

\* a ServerOp that replied was COMPLETED with its response SENT and is in the
\* detached list, and a held ServerOp that delegated is IN_PROGRESS with its
\* response SENT
C17_Witness ==
    /\ \E i \in DOMAIN detachedServerOps :
          /\ detachedServerOps[i].state = "COMPLETED"
          /\ ~detachedServerOps[i].delegated
          /\ outMsgs[detachedServerOps[i].response].status = "SENT"
    /\ \E s \in ServerOpVarIds :
          /\ sops[s].live
          /\ sops[s].op.state = "IN_PROGRESS"
          /\ Forwarded(sops[s].op)
          /\ outMsgs[sops[s].op.response].status = "SENT"

\* C18: while one thread destroys a RemoteOp and another runs poll(), the step
\* of poll() that handles a response neither attaches a response to, nor
\* cancels the request of, nor sets the state of a RemoteOp whose request the
\* destructor has already released.
C18_DestroyAtomicWithLookup ==
    [][\A t \in Threads, r \in RemoteOpIds :
          (/\ HandledBy(t)
           /\ rops[r].life = "alive"
           /\ outMsgs[rops[r].request].released >= 1)
          => /\ rops'[r] = rops[r]
             /\ outMsgs'[rops[r].request] = outMsgs[rops[r].request]]_vars

\* C19: every entry of the detached list has detached = TRUE, a request and a
\* state other than NOT_STARTED, and so has what makeProgress() makes of it;
\* every IN_PROGRESS ServerOp (pending, held or detached) has a request; no
\* assert() of poll() or makeProgress() fails.
C19_AssertionsHold ==
    /\ ~halted
    /\ \A i \in DOMAIN detachedServerOps :
          LET op == detachedServerOps[i]
              r == MakeProgress(op, inMsgs, outMsgs)
          IN /\ op.detached
             /\ op.request # 0
             /\ op.state # "NOT_STARTED"
             /\ ~r.assertFailed
             /\ r.op.state # "NOT_STARTED"
    /\ \A s \in ServerOpVarIds :
          sops[s].op.state = "IN_PROGRESS" => sops[s].op.request # 0
    /\ \A i \in DOMAIN pendingServerOps :
          pendingServerOps[i].state = "IN_PROGRESS" => pendingServerOps[i].request # 0

\* a walk of poll() has called fail() on the request of a detached FAILED op
\* (the second assertion of makeProgress()), and an IN_PROGRESS op that replied
\* is in the detached list for the next walk
C19_Witness ==
    /\ \E m \in DOMAIN inMsgs : inMsgs[m].failed = 1 /\ inMsgs[m].released = 1
    /\ \E i \in DOMAIN detachedServerOps :
          /\ detachedServerOps[i].state = "IN_PROGRESS"
          /\ outMsgs[detachedServerOps[i].response].active

\* the operations that own the inbound message m: the RemoteOps whose response
\* it is (but for one inside its destructor), the pending, held and detached
\* ServerOps whose request it is, and the poll() that has received it and not
\* yet handed it on
RemoteOwners(m) ==
    {r \in RemoteOpIds :
        /\ rops[r].life = "alive"
        /\ rops[r].response = m
        /\ \A t \in Threads : ~(threads[t].pc = "destroy" /\ threads[t].op = r)}

PendingOwners(m) == {i \in DOMAIN pendingServerOps : pendingServerOps[i].request = m}

HeldOwners(m) == {s \in ServerOpVarIds : sops[s].live /\ sops[s].op.request = m}

DetachedOwners(m) == {i \in DOMAIN detachedServerOps : detachedServerOps[i].request = m}

PollOwners(m) == {t \in Threads : threads[t].pc = "handle" /\ threads[t].message = m}

NumOwners(m) ==
    Cardinality(RemoteOwners(m)) + Cardinality(PendingOwners(m))
    + Cardinality(HeldOwners(m)) + Cardinality(DetachedOwners(m))
    + Cardinality(PollOwners(m))

\* C20: every inbound message receive() has returned is owned by exactly one
\* operation and not released, or is owned by none and was released exactly
\* once.
C20_InboundOwnedOrReleased ==
    \A m \in DOMAIN inMsgs :
        \/ NumOwners(m) = 1 /\ inMsgs[m].released = 0
        \/ NumOwners(m) = 0 /\ inMsgs[m].released = 1

====
